---- MODULE Spec2Model ----
(***************************************************************************)
(* Model of the Obsidian Wakatime / Wakapi plugin (src/main.ts).           *)
(*                                                                         *)
(* Text that the plugin inspects character by character (file paths, the   *)
(* lines of the ignore list, `path@project` rules, keys, URLs) is a        *)
(* sequence of one-character strings, so that String.includes, split and   *)
(* join are computed and not assumed.  Enumerated texts (status bar texts, *)
(* notices, language and category names) are plain strings.                *)
(***************************************************************************)
EXTENDS Integers, Sequences, FiniteSets, TLC

VARIABLES
    settings,             \* ObsidianWakatime.settings
    data,                 \* the plugin data persisted by saveData
    statusBar,            \* text of the status bar item
    lastFile,             \* ObsidianWakatime.lastFile
    lastHeartbeat,        \* ObsidianWakatime.lastHeartbeat
    lastRequestWasError,  \* ObsidianWakatime.lastRequestWasError
    toggle,               \* the "Enable the plugin" toggle of the settings tab
    view,                 \* workspace.getActiveViewOfType(FileView)
    activeFile,           \* workspace.getActiveFile()
    now,                  \* Date.now()
    requests,             \* every requestUrl call made so far, in call order
    inflight,             \* the requests (indices into requests) not yet settled
    failureStreak,        \* history: how many requests in a row have failed, up to the one settled last
    events,               \* history: the input events handled so far; qualifying: the
                          \* event got past the early returns, emitted: it called sendHeartbeat
    notices               \* the Notices shown in the step just taken

vars == <<settings, data, statusBar, lastFile, lastHeartbeat, lastRequestWasError,
          toggle, view, activeFile, now, requests, inflight, failureStreak, events,
          notices>>

---------------------------------------------------------------------------
(* Bounds of the model *)

\* input events handled in one behaviour
MaxEvents == 3
\* Date.now() when the plugin is loaded (any value above maxHeartbeatInterval)
ClockStart == 200000

---------------------------------------------------------------------------
(* Values *)

\* null and undefined of a string-typed field
Null == <<"null">>
Undefined == <<"undefined">>

\* JavaScript truthiness of a string | null | undefined value
Truthy(s) == s # Null /\ s # Undefined /\ s # <<>>

\* String.prototype.includes / Obsidian's String.prototype.contains
Includes(s, sub) ==
    \E i \in 0..(Len(s) - Len(sub)) : SubSeq(s, i + 1, i + Len(sub)) = sub

\* index of the first occurrence of character c in s, 0 if there is none
IndexOf(s, c) ==
    IF \E i \in 1..Len(s) : s[i] = c
    THEN CHOOSE i \in 1..Len(s) : s[i] = c /\ \A j \in 1..(i - 1) : s[j] # c
    ELSE 0

\* String.prototype.split(c) for a one-character separator
RECURSIVE Split(_, _)
Split(s, c) ==
    LET i == IndexOf(s, c)
    IN  IF i = 0 THEN <<s>>
        ELSE <<SubSeq(s, 1, i - 1)>> \o Split(SubSeq(s, i + 1, Len(s)), c)

\* Array.prototype.join(c)
RECURSIVE Join(_, _)
Join(list, c) ==
    IF Len(list) = 0 THEN <<>>
    ELSE IF Len(list) = 1 THEN list[1]
    ELSE list[1] \o <<c>> \o Join(Tail(list), c)

\* TFile.extension: the text after the last dot of the path
RECURSIVE Extension(_)
Extension(path) ==
    LET i == IndexOf(path, ".")
    IN  IF i = 0 THEN <<>>
        ELSE LET rest == SubSeq(path, i + 1, Len(path))
             IN  IF IndexOf(rest, ".") = 0 THEN rest ELSE Extension(rest)

\* the vault of the model and its files
VaultName == <<"V">>
NoteMd == <<"n", ".", "m", "d">>
ImagePng == <<"d", "/", "i", ".", "p", "n", "g">>
Paths == {NoteMd, ImagePng}

\* what the workspace can show: a Markdown note, an image in a plain file
\* view, a view that is no file view (the last file stays the active file),
\* and nothing at all
Workspaces ==
    { [view |-> "MarkdownView", file |-> NoteMd],
      [view |-> "FileView", file |-> ImagePng],
      [view |-> "none", file |-> NoteMd],
      [view |-> "FileView", file |-> Null],
      [view |-> "none", file |-> Null] }

\* two more files: one named md that has no extension, and one with md
\* before its extension
FileMd == <<"m", "d">>
NoteMdTxt == <<"n", ".", "m", "d", ".", "t">>
MoreWorkspaces ==
    { [view |-> "FileView", file |-> FileMd],
      [view |-> "FileView", file |-> NoteMdTxt] }

\* view.editor.getCursor() of the Markdown editor.  An optional number is a
\* sequence: <<n>> when it is set, <<>> when it is undefined.
Cursor == [line |-> <<4>>, ch |-> <<10>>]
NoCursor == [line |-> <<>>, ch |-> <<>>]

\* what the user types into the fields of the settings tab
ApiKeyTexts == { <<>>, <<"k">> }
IgnoreTexts ==
    { <<>>,
      <<"d", "/">>,
      <<"x", "/", "n", ".", "m", "d">>,
      <<"z", "\n">> }

\* the Wakapi URL field: empty, a Wakapi instance, the Wakatime host itself
ApiUrlTexts == { <<>>, <<"https://wakapi.dev">>, <<"https://api.wakatime.com">> }
ProjectTexts == { <<>>, <<"D">> }
AssociationTexts ==
    { <<>>,
      <<"d", "@", "P", "\n", "d", "/", "@", "Q">>,
      <<"d", "/", "@", "Q", "\n", "d", "@", "P">>,
      <<"m", "@", "Q", "\n", "x", "@", "P">>,
      <<"x", "@", "P">>,
      <<"d", "@", "P", "@", "Q", "\n", "d", "/", "@", "Q">> }

\* the folder of the vault on disk (the absolute path of the file d/i.png
\* is /r/V/d/i.png)
VaultBasePath == <<"/", "r", "/", "V">>

\* ignore lists of one entry naming d/i.png or its folder d, relative to the
\* vault and absolute
PathIgnoreTexts ==
    { <<>>,
      ImagePng,
      <<"d", "/">>,
      VaultBasePath \o <<"/">> \o ImagePng,
      VaultBasePath \o <<"/", "d", "/">> }

\* what the user types into either text area: nothing, one line, two lines,
\* a line break alone, a line break after and before a line
ListTexts ==
    { <<>>,
      <<"a">>,
      <<"a", "\n", "b">>,
      <<"\n">>,
      <<"a", "\n">>,
      <<"\n", "a">> }

\* the lists that the saved data can hold when the plugin is loaded
LoadedLists ==
    { <<>>,
      << <<>> >>,
      << <<"a">> >>,
      << <<"a">>, <<>> >> }

\* rule lists whose first line is no rule: no "@", no path, no project, a
\* blank line; alone and before the rule d/@Q
MalformedAssociationTexts ==
    { <<"@", "P">>,
      <<"d", "\n", "d", "/", "@", "Q">>,
      <<"@", "P", "\n", "d", "/", "@", "Q">>,
      <<"d", "@", "\n", "d", "/", "@", "Q">>,
      <<"\n", "d", "/", "@", "Q">> }

\* how a request can settle
Statuses == {299, 300, 500}
Outcomes == [kind : {"response"}, status : Statuses]
            \cup { [kind |-> "exception", status |-> 0] }

---------------------------------------------------------------------------
(* Settings *)

DEFAULT_SETTINGS ==
    [ enabled |-> FALSE,
      apiKey |-> Null,
      apiUrl |-> Null,
      defaultProject |-> Null,
      ignoreList |-> <<>>,
      projectAssociations |-> <<>> ]

\* saveSettings(): saveData(this.settings)
saveSettings(s) == s

\* updateStatusBarText(text): the text the status bar is set to; text = "null"
\* is the default argument
StatusPrefix == "[stopwatch] "
updateStatusBarText(text, enabled) ==
    <<StatusPrefix, IF text # "null" THEN text
                    ELSE IF enabled THEN "Enabled" ELSE "Disabled">>

---------------------------------------------------------------------------
(* Heartbeat Dispatcher: sendHeartbeat and what it calls *)

maxHeartbeatInterval == 120000

\* the clock stops one millisecond past the heartbeat interval
MaxElapsed == maxHeartbeatInterval + 1

\* btoa(key): an injective encoding, kept apart from the key itself
Btoa(key) == <<"base64(">> \o key \o <<")">>

HeartbeatsPath == <<"/api/v1/users/current/heartbeats">>
DefaultApiBase == <<"https://api.wakatime.com">>

\* mutant: md anywhere in the path makes a Markdown file
getLanguageForFile_MdAnywhere(path) ==
    IF Includes(path, <<"m", "d">>) THEN "Markdown" ELSE "null"

getLanguageForFile(path) ==
    IF Extension(path) = <<"m", "d">> THEN "Markdown" ELSE "null"

\* mutant: the loop goes on after a match, the last matching rule wins
RECURSIVE AssociationLoop_LastMatch(_, _, _)
AssociationLoop_LastMatch(rules, i, filePath) ==
    IF i > Len(rules) THEN Undefined
    ELSE LET parts == Split(rules[i], "@")
             path == parts[1]
             project == IF Len(parts) >= 2 THEN parts[2] ELSE Undefined
             later == AssociationLoop_LastMatch(rules, i + 1, filePath)
         IN  IF ~Truthy(path) \/ ~Truthy(project) \/ Len(parts) # 2
             THEN later
             ELSE IF Includes(filePath, path) /\ later = Undefined THEN project
             ELSE later

\* mutant: a rule with more than one "@" is taken by its first two parts
RECURSIVE AssociationLoop_AnyLength(_, _, _)
AssociationLoop_AnyLength(rules, i, filePath) ==
    IF i > Len(rules) THEN Undefined
    ELSE LET parts == Split(rules[i], "@")
             path == parts[1]
             project == IF Len(parts) >= 2 THEN parts[2] ELSE Undefined
         IN  IF ~Truthy(path) \/ ~Truthy(project)
             THEN AssociationLoop_AnyLength(rules, i + 1, filePath)
             ELSE IF Includes(filePath, path) THEN project
             ELSE AssociationLoop_AnyLength(rules, i + 1, filePath)

\* one pass of the loop of getProjectForFile over rules i, i+1, ...;
\* Undefined when the loop ends without a return
RECURSIVE AssociationLoop(_, _, _)
AssociationLoop(rules, i, filePath) ==
    IF i > Len(rules) THEN Undefined
    ELSE LET parts == Split(rules[i], "@")
             path == parts[1]
             project == IF Len(parts) >= 2 THEN parts[2] ELSE Undefined
         IN  IF ~Truthy(path) \/ ~Truthy(project) \/ Len(parts) # 2
             THEN AssociationLoop(rules, i + 1, filePath)
             ELSE IF Includes(filePath, path) THEN project
             ELSE AssociationLoop(rules, i + 1, filePath)

getProjectForFile(s, filePath) ==
    LET found == AssociationLoop(s.projectAssociations, 1, filePath)
    IN  IF found # Undefined THEN found
        ELSE IF Truthy(s.defaultProject) THEN s.defaultProject ELSE VaultName

\* mutant: the key is sent as a Bearer token whatever the URL is
Request_AlwaysBearer(s, filePath, time, line, cursorPosition, isWrite) ==
    LET lang == getLanguageForFile(filePath)
    IN  [ url |-> (IF Truthy(s.apiUrl) THEN s.apiUrl ELSE DefaultApiBase)
                  \o HeartbeatsPath,
          method |-> "POST",
          auth |-> <<"Bearer ">> \o s.apiKey,
          body |-> [ time |-> time,
                     entity |-> <<"/">> \o VaultName \o <<"/">> \o filePath,
                     type |-> "file",
                     project |-> getProjectForFile(s, filePath),
                     language |-> lang,
                     is_write |-> isWrite,
                     cursorpos |-> cursorPosition,
                     lineno |-> line,
                     editor |-> "Obsidian",
                     category |-> IF lang # "null" THEN "writing" ELSE "reading" ] ]

\* the argument of requestUrl; the wire value of time is time / 1000
Request(s, filePath, time, line, cursorPosition, isWrite) ==
    LET lang == getLanguageForFile(filePath)
    IN  [ url |-> (IF Truthy(s.apiUrl) THEN s.apiUrl ELSE DefaultApiBase)
                  \o HeartbeatsPath,
          method |-> "POST",
          auth |-> IF Truthy(s.apiUrl) THEN <<"Basic ">> \o Btoa(s.apiKey)
                   ELSE <<"Bearer ">> \o s.apiKey,
          body |-> [ time |-> time,
                     entity |-> <<"/">> \o VaultName \o <<"/">> \o filePath,
                     type |-> "file",
                     project |-> getProjectForFile(s, filePath),
                     language |-> lang,
                     is_write |-> isWrite,
                     cursorpos |-> cursorPosition,
                     lineno |-> line,
                     editor |-> "Obsidian",
                     category |-> IF lang # "null" THEN "writing" ELSE "reading" ] ]

\* mutant: the request is made a second time
sendHeartbeat_Twice(s, reqs, filePath, time, line, cursorPosition, isWrite) ==
    IF ~s.enabled THEN reqs
    ELSE Append(Append(reqs, Request(s, filePath, time, line, cursorPosition, isWrite)),
                Request(s, filePath, time, line, cursorPosition, isWrite))

\* sendHeartbeat: the requests made so far, after the call
sendHeartbeat(s, reqs, filePath, time, line, cursorPosition, isWrite) ==
    IF ~s.enabled THEN reqs
    ELSE Append(reqs, Request(s, filePath, time, line, cursorPosition, isWrite))

\* the first .then continuation (status check) applied to the plugin state
\* st = [statusBar, lastRequestWasError, notices]; thrown tells whether it threw
FailureNotice == "Could not send data to Wakatime. Please check the logs."
thenCheckStatus(st, status) ==
    IF status >= 300
    THEN [ st |-> [ statusBar |-> updateStatusBarText("Network Error", st.enabled),
                    lastRequestWasError |-> TRUE,
                    notices |-> IF ~st.lastRequestWasError
                                THEN Append(st.notices, FailureNotice)
                                ELSE st.notices,
                    enabled |-> st.enabled ],
           thrown |-> TRUE ]
    ELSE [ st |-> st, thrown |-> FALSE ]

\* mutant: a success leaves the failure flag as it is
thenSuccess_KeepsFlag(st) ==
    [ st EXCEPT !.statusBar = updateStatusBarText("null", st.enabled) ]

\* the second .then continuation (success)
thenSuccess(st) ==
    [ st EXCEPT !.statusBar = updateStatusBarText("null", st.enabled),
                !.lastRequestWasError = FALSE ]

\* mutant: the catch continuation shows its notice whatever the flag says
catchError_AlwaysNotice(st) ==
    [ st EXCEPT !.statusBar = updateStatusBarText("Unexpected Error", st.enabled),
                !.notices = Append(st.notices, FailureNotice),
                !.lastRequestWasError = TRUE ]

\* the .catch continuation
catchError(st) ==
    [ st EXCEPT !.statusBar = updateStatusBarText("Unexpected Error", st.enabled),
                !.notices = IF ~st.lastRequestWasError
                            THEN Append(st.notices, FailureNotice)
                            ELSE st.notices,
                !.lastRequestWasError = TRUE ]

\* the chain requestUrl(...).then(...).then(...).catch(...) run on one outcome
settle(st, outcome) ==
    IF outcome.kind = "exception" THEN catchError(st)
    ELSE LET r == thenCheckStatus(st, outcome.status)
         IN  IF r.thrown THEN catchError(r.st) ELSE thenSuccess(r.st)

---------------------------------------------------------------------------
(* Activity Monitor: onEvent *)

\* mutant: only entries contained in the path are looked for
isIgnored_EntryInPathOnly(ignoreList, path) ==
    \E k \in 1..Len(ignoreList) : Includes(path, ignoreList[k])

\* the test of the ignore list (main.ts line 94)
isIgnored(ignoreList, path) ==
    \E k \in 1..Len(ignoreList) :
        Includes(ignoreList[k], path) \/ Includes(path, ignoreList[k])

\* mutant: the interval is left out of the comparison
enoughTimePassed_NoInterval(last, time) == last < time

\* mutant: the interval itself counts as passed
enoughTimePassed_AtInterval(last, time) == last + maxHeartbeatInterval <= time

enoughTimePassed(last, time) == last + maxHeartbeatInterval < time

\* mutant: the enabled setting is left to sendHeartbeat
passesChecks_EnabledUnchecked(s, v, file) ==
    /\ v # "none"
    /\ file # Null
    /\ ~isIgnored(s.ignoreList, file)

\* the early returns of onEvent: TRUE when the event gets past all of them
passesChecks(s, v, file) ==
    /\ s.enabled
    /\ v # "none"
    /\ file # Null
    /\ ~isIgnored(s.ignoreList, file)

\* mutant: a change of file alone does not send
shouldSend_NoFileChange(isWrite, last, lastPath, time, path) ==
    isWrite \/ enoughTimePassed(last, time)

\* mutant: an event after a failed request sends again
shouldSend_RetryAfterError(isWrite, last, lastPath, time, path) ==
    isWrite \/ enoughTimePassed(last, time) \/ lastPath # path \/ lastRequestWasError

\* the condition of line 102
shouldSend(isWrite, last, lastPath, time, path) ==
    isWrite \/ enoughTimePassed(last, time) \/ lastPath # path

\* requestUrl(...): the requests in flight after sendHeartbeat returned reqs
inflightAfter(reqs) == inflight \cup ((1..Len(reqs)) \ (1..Len(requests)))

onEvent(isWrite) ==
    /\ Len(events) < MaxEvents
    /\ LET passes == passesChecks(settings, view, activeFile)
           time == now
           cursor == IF view = "MarkdownView" THEN Cursor ELSE NoCursor
           send == passes /\ shouldSend(isWrite, lastHeartbeat, lastFile, time, activeFile)
       IN  /\ requests' = IF send
                          THEN sendHeartbeat(settings, requests, activeFile, time,
                                             cursor.line, cursor.ch, isWrite)
                          ELSE requests
           /\ inflight' = inflightAfter(requests')
           /\ lastFile' = IF send THEN activeFile ELSE lastFile
           /\ lastHeartbeat' = IF send THEN time ELSE lastHeartbeat
           /\ events' = Append(events, [ file |-> activeFile, time |-> time,
                                         is_write |-> isWrite, qualifying |-> passes,
                                         emitted |-> send ])
    /\ notices' = <<>>
    /\ UNCHANGED <<settings, data, statusBar, lastRequestWasError, toggle, view,
                   activeFile, now, failureStreak>>

\* the listeners registered by setupEventListeners
Click == onEvent(FALSE)
Keydown == onEvent(FALSE)

\* mutant: a failed request turns tracking off and saves the settings
Complete_DisablesOnFailure(i, outcome) ==
    /\ i \in inflight
    /\ inflight' = inflight \ {i}
    /\ LET st == settle([ statusBar |-> statusBar,
                          lastRequestWasError |-> lastRequestWasError,
                          notices |-> <<>>,
                          enabled |-> settings.enabled ], outcome)
       IN  /\ statusBar' = st.statusBar
           /\ lastRequestWasError' = st.lastRequestWasError
           /\ notices' = st.notices
           /\ settings' = [ settings EXCEPT !.enabled = @ /\ ~st.lastRequestWasError ]
           /\ data' = saveSettings(settings')
    /\ failureStreak' = IF outcome.kind = "response" /\ outcome.status < 300
                        THEN 0 ELSE failureStreak + 1
    /\ UNCHANGED <<lastFile, lastHeartbeat, toggle, view, activeFile,
                   now, requests, events>>

\* a request settles: the continuations of sendHeartbeat run
Complete(i, outcome) ==
    /\ i \in inflight
    /\ inflight' = inflight \ {i}
    /\ LET st == settle([ statusBar |-> statusBar,
                          lastRequestWasError |-> lastRequestWasError,
                          notices |-> <<>>,
                          enabled |-> settings.enabled ], outcome)
       IN  /\ statusBar' = st.statusBar
           /\ lastRequestWasError' = st.lastRequestWasError
           /\ notices' = st.notices
    /\ failureStreak' = IF outcome.kind = "response" /\ outcome.status < 300
                        THEN 0 ELSE failureStreak + 1
    /\ UNCHANGED <<settings, data, lastFile, lastHeartbeat, toggle, view, activeFile,
                   now, requests, events>>

---------------------------------------------------------------------------
(* The command and the settings tab *)

\* callback of the command "Enable/Disable the plugin"
toggleEnabledCommand(s) == [ s EXCEPT !.enabled = ~s.enabled ]

ToggleCommand ==
    /\ settings' = toggleEnabledCommand(settings)
    /\ data' = saveSettings(settings')
    /\ notices' = << IF settings'.enabled THEN "Wakatime Plugin is now enabled"
                                           ELSE "Wakatime Plugin is now disabled" >>
    /\ statusBar' = updateStatusBarText("null", settings'.enabled)
    /\ UNCHANGED <<lastFile, lastHeartbeat, lastRequestWasError, toggle, view,
                   activeFile, now, requests, inflight, failureStreak, events>>

\* WakatimeSettingTab.display(): the tab is drawn anew from the settings
Display ==
    /\ toggle' = [ shown |-> TRUE, value |-> settings.enabled, disabled |-> FALSE ]
    /\ notices' = <<>>
    /\ UNCHANGED <<settings, data, statusBar, lastFile, lastHeartbeat,
                   lastRequestWasError, view, activeFile, now, requests, inflight,
                   failureStreak, events>>

\* onChange of the enable toggle with the toggle already set to `value`:
\* the settings, the toggle and the notices after it.  setValue(false) on the
\* rejecting path calls onChange again, which returns at once (the toggle is
\* disabled by then).
enableOnChange(s, tg, value) ==
    IF tg.disabled
    THEN [ settings |-> s, toggle |-> tg, notices |-> <<>>, saved |-> FALSE ]
    ELSE IF ~Truthy(s.apiKey)
    THEN [ settings |-> s,
           toggle |-> [ tg EXCEPT !.disabled = TRUE, !.value = FALSE ],
           notices |-> <<"Please set a valid API key first.">>,
           saved |-> FALSE ]
    ELSE [ settings |-> [ s EXCEPT !.enabled = value ],
           toggle |-> tg,
           notices |-> <<>>,
           saved |-> TRUE ]

\* the user clicks the enable toggle of the displayed tab
ToggleClick ==
    /\ toggle.shown
    /\ ~toggle.disabled
    /\ LET value == ~toggle.value
           r == enableOnChange(settings, [ toggle EXCEPT !.value = value ], value)
       IN  /\ settings' = r.settings
           /\ toggle' = r.toggle
           /\ notices' = r.notices
           /\ data' = IF r.saved THEN saveSettings(settings') ELSE data
           /\ statusBar' = IF r.saved
                           THEN updateStatusBarText("null", settings'.enabled)
                           ELSE statusBar
    /\ UNCHANGED <<lastFile, lastHeartbeat, lastRequestWasError, view, activeFile,
                   now, requests, inflight, failureStreak, events>>

\* onChange of a text field: the empty text is stored as null
textOrNull(value) == IF value # <<>> THEN value ELSE Null

\* mutant: the empty text is split like any other
linesOf_AlwaysSplit(value) == Split(value, "\n")

\* onChange of a text area: one entry per line
linesOf(value) == IF Len(value) > 0 THEN Split(value, "\n") ELSE <<>>

\* a settings field is edited and the settings are saved
EditSetting(s) ==
    /\ settings' = s
    /\ data' = saveSettings(settings')
    /\ notices' = <<>>
    /\ UNCHANGED <<statusBar, lastFile, lastHeartbeat, lastRequestWasError, toggle,
                   view, activeFile, now, requests, inflight, failureStreak, events>>

SetApiKey(value) == EditSetting([ settings EXCEPT !.apiKey = textOrNull(value) ])
SetApiUrl(value) == EditSetting([ settings EXCEPT !.apiUrl = textOrNull(value) ])
SetDefaultProject(value) ==
    EditSetting([ settings EXCEPT !.defaultProject = textOrNull(value) ])
SetIgnoreList(value) == EditSetting([ settings EXCEPT !.ignoreList = linesOf(value) ])
SetProjectAssociations(value) ==
    EditSetting([ settings EXCEPT !.projectAssociations = linesOf(value) ])

\* the text a text area is set to by display()
shownText(list) == Join(list, "\n")

\* the text shown by a text area comes back through its onChange unchanged
SaveShownIgnoreList == SetIgnoreList(shownText(settings.ignoreList))
SaveShownProjectAssociations ==
    SetProjectAssociations(shownText(settings.projectAssociations))

---------------------------------------------------------------------------
(* The environment: the clock and the workspace *)

\* the clock advances by half the heartbeat interval, or by one ms more
Deltas == { maxHeartbeatInterval \div 2, maxHeartbeatInterval \div 2 + 1 }

Tick(d) ==
    /\ now + d <= ClockStart + MaxElapsed
    /\ now' = now + d
    /\ notices' = <<>>
    /\ UNCHANGED <<settings, data, statusBar, lastFile, lastHeartbeat,
                   lastRequestWasError, toggle, view, activeFile, requests,
                   inflight, failureStreak, events>>

\* the user opens another file or view
SwitchTo(w) ==
    /\ <<w.view, w.file>> # <<view, activeFile>>
    /\ view' = w.view
    /\ activeFile' = w.file
    /\ notices' = <<>>
    /\ UNCHANGED <<settings, data, statusBar, lastFile, lastHeartbeat,
                   lastRequestWasError, toggle, now, requests, inflight, failureStreak,
                   events>>

---------------------------------------------------------------------------
(* The plugin after onload() *)

\* what loadData() can return: the settings saved by an earlier session in
\* which the key was entered and tracking enabled, or nothing (a fresh
\* installation; nothing overrides the defaults)
ConfiguredData == [ DEFAULT_SETTINGS EXCEPT !.enabled = TRUE, !.apiKey = <<"k">> ]
FreshData == DEFAULT_SETTINGS

\* loadSettings(): Object.assign({}, DEFAULT_SETTINGS, loaded); every field
\* of the loaded object overrides the default
loadSettings(loaded) == [ f \in DOMAIN DEFAULT_SETTINGS |-> loaded[f] ]

InitWith(loaded) ==
    /\ data = loaded
    /\ settings = loadSettings(data)
    /\ statusBar = updateStatusBarText("null", settings.enabled)
    /\ lastFile = Undefined
    /\ lastHeartbeat = 0
    /\ lastRequestWasError = FALSE
    /\ toggle = [ shown |-> FALSE, value |-> FALSE, disabled |-> FALSE ]
    /\ view = "none"
    /\ activeFile = Null
    /\ now = ClockStart
    /\ requests = <<>>
    /\ inflight = {}
    /\ failureStreak = 0
    /\ events = <<>>
    /\ notices = <<>>

\* a configured installation
Init == InitWith(ConfiguredData)

\* a configured installation whose saved data holds lists
InitLists ==
    \E ignored \in LoadedLists, associations \in LoadedLists :
        InitWith([ ConfiguredData EXCEPT !.ignoreList = ignored,
                                         !.projectAssociations = associations ])

\* a fresh or a configured installation
InitAny == InitWith(FreshData) \/ InitWith(ConfiguredData)

(* The whole plugin has more reachable states than can be enumerated with  *)
(* the histories kept here, so each specification drives the same actions  *)
(* with a part of the inputs.  onEvent reads settings, view, activeFile,   *)
(* lastFile, lastHeartbeat and the clock, none of which a settling request *)
(* writes; the continuations of a request read and write statusBar and     *)
(* lastRequestWasError and read settings.enabled, none of which onEvent    *)
(* writes.                                                                 *)

\* Activity Monitor: input events against the clock, the workspace, the
\* command and the ignore list; the requests stay in flight
Next ==
    \/ Click
    \/ Keydown
    \/ ToggleCommand
    \/ \E v \in IgnoreTexts : SetIgnoreList(v)
    \/ \E d \in Deltas : Tick(d)
    \/ \E w \in Workspaces : SwitchTo(w)

Spec == Init /\ [][Next]_vars

\* Heartbeat Dispatcher: input events and settling requests, with the
\* command and the workspace
NextDispatch ==
    \/ Click
    \/ Keydown
    \/ \E i \in 1..MaxEvents, o \in Outcomes : Complete(i, o)
    \/ ToggleCommand
    \/ \E w \in Workspaces : SwitchTo(w)

SpecDispatch == InitAny /\ [][NextDispatch]_vars

\* Project resolution: input events against the project associations, the
\* default project and the workspace
NextProject ==
    \/ Click
    \/ Keydown
    \/ \E v \in AssociationTexts \cup MalformedAssociationTexts :
           SetProjectAssociations(v)
    \/ \E v \in ProjectTexts : SetDefaultProject(v)
    \/ \E w \in Workspaces : SwitchTo(w)

SpecProject == Init /\ [][NextProject]_vars

\* The request: input events against the Wakapi URL and files of several
\* names
NextPayload ==
    \/ Click
    \/ Keydown
    \/ \E v \in ApiUrlTexts : SetApiUrl(v)
    \/ \E w \in Workspaces \cup MoreWorkspaces : SwitchTo(w)

SpecPayload == Init /\ [][NextPayload]_vars

\* The text areas of the settings tab: the lists are loaded, edited, shown
\* and saved
NextLists ==
    \/ \E v \in ListTexts : SetIgnoreList(v)
    \/ \E v \in ListTexts : SetProjectAssociations(v)
    \/ SaveShownIgnoreList
    \/ SaveShownProjectAssociations
    \/ \E w \in Workspaces : SwitchTo(w)

SpecLists == InitLists /\ [][NextLists]_vars

\* The ignore list with entries naming files and folders
NextIgnore ==
    \/ Click
    \/ Keydown
    \/ \E v \in PathIgnoreTexts : SetIgnoreList(v)
    \/ \E w \in Workspaces : SwitchTo(w)

SpecIgnore == Init /\ [][NextIgnore]_vars

\* The settings tab and the command, with input events
NextSettings ==
    \/ Click
    \/ Keydown
    \/ ToggleCommand
    \/ Display
    \/ ToggleClick
    \/ \E v \in ApiKeyTexts : SetApiKey(v)
    \/ \E w \in Workspaces : SwitchTo(w)

SpecSettings == InitAny /\ [][NextSettings]_vars

---------------------------------------------------------------------------
(* Vocabulary of the properties *)

\* the step just taken handled an input event
EventStep == Len(events') = Len(events) + 1

\* the step just taken made a request
RequestStep == Len(requests') = Len(requests) + 1

\* the step just taken settled a request
CompletionStep == inflight' # inflight /\ inflight' \subseteq inflight

\* the input event handled last
LastEvent == events[Len(events)]

\* the events that emitted a heartbeat, in order
Heartbeats == SelectSeq(events, LAMBDA e : e.emitted)

\* events i..j are a run: none is a write, all have the active file of the
\* first, all occur less than the heartbeat interval after the first
IsRun(i, j) ==
    \A k \in i..j :
        /\ ~events[k].is_write
        /\ events[k].file = events[i].file
        /\ events[k].time < events[i].time + maxHeartbeatInterval

EmittedIn(i, j) == { k \in i..j : events[k].emitted }

\* two heartbeats for one file less than the interval apart: the later one
\* is a write or follows a heartbeat for another file
CloseHeartbeatsAreJustified ==
    LET h == Heartbeats
    IN  \A i \in 1..Len(h), j \in 1..Len(h) :
            (i < j /\ h[i].file = h[j].file
                   /\ h[j].time - h[i].time < maxHeartbeatInterval)
            => (h[j].is_write \/ h[j - 1].file # h[j].file)

---------------------------------------------------------------------------
(* C1 *)

\* C1 as stated: heartbeats for one file less than 120,000 ms apart are
\* justified by a write or a change of file, and in every run of non-write
\* events on one file within 120,000 ms of the run's first event at most one
\* heartbeat is emitted, and only for the first event of the run.  Only runs
\* of qualifying events are looked at here, so that an event rejected by an
\* early return is never the first event that "should have" emitted.
C1_DebounceFirstOfRun ==
    /\ CloseHeartbeatsAreJustified
    /\ \A i \in 1..Len(events), j \in 1..Len(events) :
           (i <= j /\ IsRun(i, j) /\ \A k \in i..j : events[k].qualifying)
           => (Cardinality(EmittedIn(i, j)) <= 1 /\ EmittedIn(i, j) \subseteq {i})

\* C1 as amended: the same, but the one heartbeat of a run need not be for
\* the run's first event.
C1_Debounce ==
    /\ CloseHeartbeatsAreJustified
    /\ \A i \in 1..Len(events), j \in 1..Len(events) :
           (i <= j /\ IsRun(i, j)) => Cardinality(EmittedIn(i, j)) <= 1

\* a run of three qualifying events on one file of which only the first
\* emitted a heartbeat
C1_Witness ==
    /\ Len(events) = 3
    /\ IsRun(1, 3)
    /\ \A k \in 1..3 : events[k].qualifying
    /\ EmittedIn(1, 3) = {1}
    /\ events[3].time > events[1].time

---------------------------------------------------------------------------
(* C2 *)

\* an ignore-list entry and a path match when either contains the other
Matches(entry, path) == Includes(path, entry) \/ Includes(entry, path)

\* an input event handled now would be a qualifying one: tracking enabled, a
\* file view and an active file present, the path not on the ignore list
QualifyingNow ==
    /\ settings.enabled
    /\ view # "none"
    /\ activeFile # Null
    /\ \A k \in 1..Len(settings.ignoreList) : ~Matches(settings.ignoreList[k], activeFile)

\* the step just taken made exactly one request, for the active file at the
\* current time
EmitsForActiveFile ==
    /\ events'[Len(events')].emitted
    /\ RequestStep
    /\ requests'[Len(requests')].body.entity = <<"/">> \o VaultName \o <<"/">> \o activeFile
    /\ requests'[Len(requests')].body.time = now

\* C2 as stated, in the case where the switch shows in the events handled:
\* a qualifying event whose active file is another file than that of the
\* event before it emits a heartbeat.
C2_SwitchAlwaysEmits ==
    [][ (EventStep /\ QualifyingNow /\ Len(events) > 0
           /\ LastEvent.file # Null /\ LastEvent.file # activeFile)
        => EmitsForActiveFile ]_vars

\* C2 as amended: a qualifying event whose active file is not the file of
\* the heartbeat emitted last (or before which none was emitted) emits a
\* heartbeat, whatever the clock says.
C2_FileChangeEmits ==
    [][ (EventStep /\ QualifyingNow
           /\ (Len(Heartbeats) = 0 \/ Heartbeats[Len(Heartbeats)].file # activeFile))
        => EmitsForActiveFile ]_vars

\* two heartbeats at the same millisecond, the second after a change of file
C2_Witness ==
    /\ Len(Heartbeats) >= 2
    /\ Heartbeats[1].file # Heartbeats[2].file
    /\ Heartbeats[1].time = Heartbeats[2].time
    /\ Len(requests) >= 2

---------------------------------------------------------------------------
(* C3 *)

\* the request settled in the step just taken failed (a status >= 300 or an
\* exception), resp. succeeded
FailedStep == CompletionStep /\ failureStreak' = failureStreak + 1
SucceededStep == CompletionStep /\ failureStreak' = 0

\* C3: a settling request shows the failure notice exactly when it failed and
\* no request failed directly before it (none had settled, or the one settled
\* last succeeded); it never shows the notice twice.
C3_NoticeOncePerStreak ==
    [][ CompletionStep
        => notices' = IF FailedStep /\ failureStreak = 0
                      THEN <<FailureNotice>> ELSE <<>> ]_vars

\* three requests have settled, the last two of them failed one after the
\* other
C3_Witness ==
    /\ Len(requests) = 3
    /\ inflight = {}
    /\ failureStreak = 2
    /\ lastRequestWasError

---------------------------------------------------------------------------
(* C6 *)

ErrorTexts == { updateStatusBarText("Network Error", TRUE),
                updateStatusBarText("Unexpected Error", TRUE) }

\* C6: every request in flight can settle, whatever the order; a settling
\* request removes itself from the requests in flight and changes no
\* request; after it the status bar and the failure flag tell its outcome
\* alone: the neutral text of the enabled setting and no flag after a
\* success, an error text and the flag after a failure.
C6_LastCompletionWins ==
    [][ /\ \A i \in inflight : \A o \in Outcomes : ENABLED Complete(i, o)
        /\ CompletionStep
            => /\ requests' = requests
               /\ Cardinality(inflight') = Cardinality(inflight) - 1
               /\ SucceededStep
                   => /\ statusBar' = <<StatusPrefix,
                                        IF settings.enabled THEN "Enabled" ELSE "Disabled">>
                      /\ ~lastRequestWasError'
               /\ FailedStep
                   => /\ statusBar' \in ErrorTexts
                      /\ lastRequestWasError' ]_vars

\* of three overlapping requests the two later ones have settled, the last
\* to settle with success and after tracking was turned off, while the
\* first is still in flight
C6_Witness ==
    /\ Len(requests) = 3
    /\ inflight = {1}
    /\ failureStreak = 0
    /\ ~lastRequestWasError
    /\ statusBar = updateStatusBarText("null", FALSE)

---------------------------------------------------------------------------
(* C7 *)

\* C7: the requests made are as many as the events that emitted a heartbeat,
\* whatever has settled in between and however it ended.
C7_OneRequestPerHeartbeat ==
    Len(requests) = Cardinality({ k \in 1..Len(events) : events[k].emitted })

\* two heartbeats and a suppressed event, one request has failed
C7_Witness ==
    /\ Len(events) = 3
    /\ Len(requests) = 2
    /\ events[2].qualifying /\ ~events[2].emitted
    /\ failureStreak = 1
    /\ Cardinality(inflight) = 1

---------------------------------------------------------------------------
(* C4 *)

\* C4: while no API key is set, no operation turns tracking on.
C4_NoEnableWithoutKey ==
    [][ (~Truthy(settings.apiKey) /\ ~settings.enabled) => ~settings'.enabled ]_vars

---------------------------------------------------------------------------
(* C5 *)

\* C5: an input event on a path that some ignore-list entry contains or is
\* contained in (the empty entry is contained in every path) emits no
\* heartbeat and makes no request.
C5_IgnoredPathsEmitNothing ==
    [][ (EventStep /\ activeFile # Null
           /\ \E k \in 1..Len(settings.ignoreList) :
                  Matches(settings.ignoreList[k], activeFile))
        => (~events'[Len(events')].emitted /\ requests' = requests
              /\ inflight' = inflight) ]_vars

\* an event on n.md, which only the entry x/n.md containing it keeps from
\* a heartbeat, was rejected
C5_Witness ==
    /\ Len(events) > 0
    /\ LastEvent.file = NoteMd /\ ~LastEvent.qualifying
    /\ settings.ignoreList = << <<"x", "/", "n", ".", "m", "d">> >>
    /\ settings.enabled /\ view = "MarkdownView" /\ activeFile = NoteMd
    /\ lastFile # NoteMd
    /\ requests = <<>>

---------------------------------------------------------------------------
(* C8 *)

\* C8: a heartbeat emitted on a key press reports a write (is_write = true).
C8_KeyPressIsWrite ==
    [][ (Keydown /\ RequestStep) => requests'[Len(requests')].body.is_write ]_vars

---------------------------------------------------------------------------
(* C9 *)

\* a rule is one "@" between a non-empty path fragment and a non-empty
\* project name
WellFormedRule(rule) ==
    /\ Cardinality({ i \in 1..Len(rule) : rule[i] = "@" }) = 1
    /\ rule[1] # "@"
    /\ rule[Len(rule)] # "@"

RulePath(rule) ==
    LET at == CHOOSE i \in 1..Len(rule) : rule[i] = "@" IN SubSeq(rule, 1, at - 1)

RuleProject(rule) ==
    LET at == CHOOSE i \in 1..Len(rule) : rule[i] = "@" IN SubSeq(rule, at + 1, Len(rule))

\* the project of the first rule in list order whose path fragment the file
\* path contains; without one the default project, without that the vault
FirstMatchProject(s, path) ==
    LET rules == s.projectAssociations
        matching == { i \in 1..Len(rules) : Includes(path, RulePath(rules[i])) }
    IN  IF matching # {}
        THEN RuleProject(rules[CHOOSE i \in matching : \A j \in matching : i <= j])
        ELSE IF s.defaultProject # Null THEN s.defaultProject ELSE VaultName

---------------------------------------------------------------------------
(* C10 *)

\* C10: an input event that makes no request changes neither lastHeartbeat
\* nor lastFile, nor the settings, the saved data, the failure flag, the
\* status bar or the requests; lastHeartbeat and lastFile change in no step
\* but an input event that makes a request, which sets them to the time and
\* the path of that event.
C10_EventWithoutHeartbeatChangesNothing ==
    [][ /\ (EventStep /\ ~RequestStep)
            => UNCHANGED <<lastHeartbeat, lastFile, settings, data,
                           lastRequestWasError, statusBar, requests, inflight>>
        /\ (lastHeartbeat' # lastHeartbeat \/ lastFile' # lastFile)
            => (EventStep /\ RequestStep)
        /\ (EventStep /\ RequestStep)
            => (lastHeartbeat' = now /\ lastFile' = activeFile) ]_vars

\* a heartbeat, then an event rejected by an early return, then an event
\* suppressed by the debounce
C10_Witness ==
    /\ Len(events) = 3
    /\ events[1].emitted
    /\ ~events[2].qualifying
    /\ events[3].qualifying /\ ~events[3].emitted
    /\ Len(requests) = 1
    /\ lastHeartbeat = events[1].time /\ lastFile = events[1].file

---------------------------------------------------------------------------
(* C11 *)

\* C11: a settling request, whatever its outcome and whatever events and
\* settings changes come before it, changes no settings field, not the saved
\* data, not lastHeartbeat and not lastFile; of the plugin's state it changes
\* the status bar text and the failure flag alone.
C11_CompletionLeavesSettings ==
    [][ CompletionStep
        => UNCHANGED <<settings, data, lastHeartbeat, lastFile, toggle, view,
                       activeFile, now, requests, events>> ]_vars

\* requests have failed with a response and with an exception after the
\* command had changed the settings, and the settings and the debounce
\* state are those of the command and of the heartbeat made last
C11_Witness ==
    /\ failureStreak = 2
    /\ lastRequestWasError
    /\ settings = [ DEFAULT_SETTINGS EXCEPT !.enabled = TRUE ]
    /\ data = settings
    /\ Len(requests) = 2
    /\ lastFile = LastEvent.file
    /\ lastHeartbeat = LastEvent.time

---------------------------------------------------------------------------
(* C12 *)

\* the request made in the step just taken
NewRequest == requests'[Len(requests')]

\* the request just made goes to the configured URL with the key Basic
\* encoded, or without a configured URL to the Wakatime host with the key
\* as Bearer token, by the settings at the time of the event
EndpointAndSchemeBySetting ==
    IF settings.apiUrl # Null /\ settings.apiUrl # <<>>
    THEN /\ NewRequest.url = settings.apiUrl \o HeartbeatsPath
         /\ NewRequest.auth = <<"Basic ">> \o Btoa(settings.apiKey)
    ELSE /\ NewRequest.url = <<"https://api.wakatime.com">> \o HeartbeatsPath
         /\ NewRequest.auth = <<"Bearer ">> \o settings.apiKey

\* C12 as stated: endpoint and scheme follow the configured URL, and the
\* Wakatime host gets a Bearer header and never a Basic one, every other
\* host a Basic header and never a Bearer one.
C12_SchemeFollowsHost ==
    [][ RequestStep
        => /\ EndpointAndSchemeBySetting
           /\ NewRequest.auth[1] = "Bearer "
                <=> NewRequest.url = <<"https://api.wakatime.com">> \o HeartbeatsPath ]_vars

\* C12 as amended: endpoint and scheme follow the configured URL; a Bearer
\* header is sent only while no URL is configured, a Basic header only while
\* one is.
C12_SchemeFollowsSetting ==
    [][ RequestStep
        => /\ EndpointAndSchemeBySetting
           /\ NewRequest.auth[1] \in {"Bearer ", "Basic "}
           /\ NewRequest.auth[1] = "Bearer "
                <=> (settings.apiUrl = Null \/ settings.apiUrl = <<>>) ]_vars

\* a heartbeat went to the Wakatime host with a Bearer header, one to the
\* Wakapi instance entered after it with a Basic header, and one with a
\* Basic header to the Wakatime host, entered as URL
C12_Witness ==
    /\ Len(requests) = 3
    /\ requests[1].url = <<"https://api.wakatime.com">> \o HeartbeatsPath
    /\ requests[1].auth = <<"Bearer ", "k">>
    /\ requests[2].url = <<"https://wakapi.dev">> \o HeartbeatsPath
    /\ requests[2].auth = <<"Basic ", "base64(", "k", ")">>
    /\ requests[3].url = <<"https://api.wakatime.com">> \o HeartbeatsPath
    /\ requests[3].auth = <<"Basic ", "base64(", "k", ")">>

---------------------------------------------------------------------------
(* C13 *)

\* the path ends in .md
EndsInDotMd(path) ==
    Len(path) >= 3 /\ SubSeq(path, Len(path) - 2, Len(path)) = <<".", "m", "d">>

\* C13: the language of a heartbeat is Markdown when the path of the file
\* ends in .md and null otherwise, and its category is writing when the
\* language is set and reading otherwise.
C13_LanguageAndCategory ==
    [][ RequestStep
        => /\ NewRequest.body.language
                = (IF EndsInDotMd(activeFile) THEN "Markdown" ELSE "null")
           /\ NewRequest.body.category
                = (IF NewRequest.body.language # "null" THEN "writing" ELSE "reading") ]_vars

\* heartbeats for n.md (Markdown, writing), for the file md and for n.md.t
\* (no language, reading)
C13_Witness ==
    /\ Len(requests) = 3
    /\ \E i, j, k \in 1..3 :
           /\ requests[i].body.entity = <<"/">> \o VaultName \o <<"/">> \o NoteMd
           /\ requests[i].body.language = "Markdown"
           /\ requests[i].body.category = "writing"
           /\ requests[j].body.entity = <<"/">> \o VaultName \o <<"/">> \o FileMd
           /\ requests[j].body.language = "null"
           /\ requests[j].body.category = "reading"
           /\ requests[k].body.entity = <<"/">> \o VaultName \o <<"/">> \o NoteMdTxt
           /\ requests[k].body.language = "null"

---------------------------------------------------------------------------
(* C14 *)

\* saving a text and showing the stored list again shows the text
TextSurvivesSaving ==
    \A t \in ListTexts :
        /\ SetIgnoreList(t) => Join(settings'.ignoreList, "\n") = t
        /\ SetProjectAssociations(t) => Join(settings'.projectAssociations, "\n") = t

\* C14 as stated: for both lists, saving the text shown for a list stores
\* that list again, and showing the list stored for a text shows that text
\* again.
C14_RoundTrip ==
    [][ /\ SaveShownIgnoreList => settings'.ignoreList = settings.ignoreList
        /\ SaveShownProjectAssociations
            => settings'.projectAssociations = settings.projectAssociations
        /\ TextSurvivesSaving ]_vars

\* C14 as amended: the same for every list but the list of one empty entry.
C14_RoundTripButOneEmptyEntry ==
    [][ /\ (SaveShownIgnoreList /\ settings.ignoreList # << <<>> >>)
            => settings'.ignoreList = settings.ignoreList
        /\ (SaveShownProjectAssociations /\ settings.projectAssociations # << <<>> >>)
            => settings'.projectAssociations = settings.projectAssociations
        /\ TextSurvivesSaving ]_vars

\* the lists stored for a line break alone and for a line after a line
\* break, each with an empty entry, are shown as those texts again
C14_Witness ==
    /\ settings.ignoreList = << <<>>, <<>> >>
    /\ settings.projectAssociations = << <<>>, <<"a">> >>
    /\ shownText(settings.ignoreList) = <<"\n">>
    /\ shownText(settings.projectAssociations) = <<"\n", "a">>
    /\ linesOf(shownText(settings.ignoreList)) = settings.ignoreList

---------------------------------------------------------------------------
(* C15 *)

\* entry is the path p or a folder that p lies in
FileOrFolderOf(entry, p) ==
    \/ entry = p
    \/ /\ 0 < Len(entry) /\ Len(entry) < Len(p)
       /\ SubSeq(p, 1, Len(entry)) = entry
       /\ entry[Len(entry)] = "/" \/ p[Len(entry) + 1] = "/"

\* entry names the file at the vault-relative path, or a folder the file is
\* in, by a path relative to the vault or by an absolute path
NamesFile(entry, path) ==
    \/ FileOrFolderOf(entry, path)
    \/ FileOrFolderOf(entry, VaultBasePath \o <<"/">> \o path)

\* C15: an input event on a file that an ignore-list entry names, itself or
\* by a folder it is in, by a relative or by an absolute path, emits no
\* heartbeat.
C15_FilesAndFoldersRelativeAndAbsolute ==
    [][ (EventStep /\ activeFile # Null
           /\ \E k \in 1..Len(settings.ignoreList) :
                  NamesFile(settings.ignoreList[k], activeFile))
        => (~events'[Len(events')].emitted /\ requests' = requests) ]_vars

---------------------------------------------------------------------------
(* C16 *)

\* the events before event k that emitted a heartbeat
EmittedBefore(k) == { j \in 1..(k - 1) : events[j].emitted }

\* the last of them
LastEmittedBefore(k) ==
    CHOOSE j \in EmittedBefore(k) : \A i \in EmittedBefore(k) : i <= j

\* C16: a qualifying event that is no write, on the file of the heartbeat
\* emitted last, emits a heartbeat exactly when its time is greater than
\* that of the last heartbeat plus 120,000 ms.
C16_StrictThreshold ==
    \A k \in 1..Len(events) :
        (/\ events[k].qualifying
         /\ ~events[k].is_write
         /\ EmittedBefore(k) # {}
         /\ events[LastEmittedBefore(k)].file = events[k].file)
        => (events[k].emitted
              <=> events[k].time > events[LastEmittedBefore(k)].time + 120000)

\* a qualifying event on the file of the last heartbeat exactly 120,000 ms
\* after it emitted nothing
C16_Witness ==
    /\ Len(events) >= 2
    /\ EmittedBefore(Len(events)) # {}
    /\ LastEvent.qualifying
    /\ LastEvent.file = events[LastEmittedBefore(Len(events))].file
    /\ LastEvent.time = events[LastEmittedBefore(Len(events))].time + 120000
    /\ ~LastEvent.emitted
    /\ Len(requests) = 1

---------------------------------------------------------------------------
(* C17 *)

\* C17: a settling request makes no request and leaves lastHeartbeat and
\* lastFile as the event that emitted the heartbeat set them; an event on
\* the file of the last heartbeat less than 120,000 ms after it makes no
\* request, whether requests have failed or are in flight; and every request
\* is made by an input event, for the active file and the time of that
\* event, after the requests made before.
C17_FailedHeartbeatIsDropped ==
    [][ /\ CompletionStep
            => (requests' = requests /\ UNCHANGED <<lastHeartbeat, lastFile>>)
        /\ (EventStep /\ activeFile = lastFile /\ now < lastHeartbeat + 120000)
            => requests' = requests
        /\ requests' # requests
            => /\ EventStep
               /\ requests' = Append(requests, NewRequest)
               /\ NewRequest.body.time = now
               /\ NewRequest.body.entity
                    = <<"/">> \o VaultName \o <<"/">> \o activeFile ]_vars

\* the request of the one heartbeat has failed, and two more events on its
\* file have emitted nothing
C17_Witness ==
    /\ Len(events) = 3
    /\ Len(requests) = 1
    /\ inflight = {}
    /\ failureStreak = 1
    /\ lastRequestWasError
    /\ events[1].emitted
    /\ \A k \in 2..3 : /\ events[k].qualifying
                        /\ events[k].file = events[1].file
                        /\ ~events[k].emitted
    /\ lastFile = events[1].file
    /\ lastHeartbeat = events[1].time

---------------------------------------------------------------------------
(* C18 *)

\* C18: whenever a request is made an API key is set, and the Authorization
\* header carries no null key.
C18_NoRequestWithoutKey ==
    [][ RequestStep
        => /\ settings.apiKey # Null
           /\ settings.apiKey # <<>>
           /\ NewRequest.auth # <<"Bearer ", "null">> ]_vars

---------------------------------------------------------------------------
(* C19 *)

\* C19: the project of every heartbeat is the one resolved from the rules
\* that are well-formed, in their order, as if the other lines (no "@",
\* more than one "@", no path, no project, blank) were not in the list.
C19_MalformedRulesAreSkipped ==
    [][ RequestStep
        => NewRequest.body.project
             = FirstMatchProject(
                   [ settings EXCEPT !.projectAssociations =
                         SelectSeq(settings.projectAssociations, WellFormedRule) ],
                   activeFile) ]_vars

\* a heartbeat for d/i.png under the lines d@P@Q, d/@Q has the project Q
\* of the second line
C19_Witness ==
    /\ Len(requests) > 0
    /\ settings.projectAssociations
         = << <<"d", "@", "P", "@", "Q">>, <<"d", "/", "@", "Q">> >>
    /\ requests[Len(requests)].body.entity = <<"/">> \o VaultName \o <<"/">> \o ImagePng
    /\ requests[Len(requests)].body.project = <<"Q">>

====
